---- MODULE Spec2Model ----
(***************************************************************************)
(* A state-machine model of the dictionary induction, cross-matching,      *)
(* Procrustes alignment and training-schedule code of                      *)
(* generalized-procrustes-MUSE (src/src/dico_builder.py,                   *)
(* src/src/trainer.py, src/src/evaluation/evaluator.py).                   *)
(*                                                                         *)
(* Word ids are 0-based as in the code; TLA+ sequence positions are        *)
(* 1-based.  An exception raised by the code is modelled as the outcome    *)
(* of the call (a string naming the exception).                            *)
(***************************************************************************)
EXTENDS Integers, Sequences, FiniteSets, TLC

VARIABLES
    cand,   \* the last get_candidates call: its arguments and what it returned
    pw,     \* the last build_pairwise_dictionary call: arguments and result
    bd,     \* build_dictionary / load_training_dico in progress, and its outcome
    params,             \* the Trainer's params (configuration and tgt_lang)
    pc,                 \* "running", or "exited" once exit() was called
    discriminator,      \* the discriminator's parameters
    mapping,            \* mapping[lang]: the mapping matrix of each language
    lr,                 \* map_optimizer.param_groups[0]['lr']
    best_valid_metric,  \* Trainer.best_valid_metric
    decrease_lr,        \* Trainer.decrease_lr
    saved,              \* best_mapping.<lang>.pth: the matrix saved, <<>> if none
    call,               \* history: the last Trainer call and its inputs
    hist,               \* history: what update_lr and save_best have seen
    emb,                \* emb[lang]: the embedding matrix (weight.data) of each language
    self_dico,          \* Trainer.dico: the rows (source id, target ids ...)
    gp                  \* generalized_procrustes / simple_procrustes in progress

dicoVars == <<cand, pw, bd>>
procVars == <<emb, self_dico, gp>>
trainerVars == <<params, pc, discriminator, mapping, lr, best_valid_metric,
                 decrease_lr, saved, call, hist, procVars>>
vars == <<cand, pw, bd, params, pc, discriminator, mapping, lr, best_valid_metric,
          decrease_lr, saved, call, hist, emb, self_dico, gp>>

Min(a, b) == IF a <= b THEN a ELSE b
Max(a, b) == IF a >= b THEN a ELSE b

(***************************************************************************)
(* Bounds of the model.                                                    *)
(***************************************************************************)
MaxRows == 3        \* rows of an embedding matrix handed to get_candidates
MaxSize == 2        \* largest dico_max_size / dico_min_size tried
MaxMargin == 2      \* largest top1 - top2 margin the scorer reports
NumWords == 2       \* words per vocabulary in the dictionary builders
MaxCand == 2        \* longest candidate list handed to build_pairwise_dictionary
MaxTgt == 3         \* most target languages in params.tgt_lang
Dim == 2            \* emb_dim: the mapping matrices are Dim x Dim
MaxSteps == 3       \* dis_step / mapping_step calls in a run
MaxEntry == 200     \* largest matrix entry a mapping_step starts from
MaxCalls == 4       \* update_lr / save_best calls in a run

(***************************************************************************)
(* get_candidates (dico_builder.py 17-140)                                 *)
(***************************************************************************)
Methods == {"nn", "invsm_beta_", "csls_knn_"}

\* diff[:params.dico_min_size] = 1e9
Sentinel == 1000000000

Margins == 0..MaxMargin
Thresholds == {0, 1, Sentinel}

\* n_src: the number of source words to consider
NSrc(method, n1, max_rank) ==
    IF max_rank > 0 /\ method # "invsm_beta_" THEN max_rank ELSE n1

\* The number of rows of all_scores / all_targets the scoring loops produce.
\* nn and csls slice emb1[i:min(n_src, i + bs)], which a short emb1 clamps;
\* the inverted softmax scores every row of emb1.
ScoredRows(method, n1, n_src) ==
    IF method = "invsm_beta_" THEN n1 ELSE Min(n_src, n1)

\* assert all_scores.size() == all_pairs.size() == (n_src, 2)
SanityCheck(rows, n_src) == rows = n_src

\* all_pairs: row i is (i, all_targets[i, 0]); diff is all_scores[:,0] - all_scores[:,1]
AllPairs(targets, margins) ==
    [i \in 1..Len(targets) |-> [pair |-> <<i - 1, targets[i]>>, diff |-> margins[i]]]

\* diff.sort(0, descending=True)[1]: every order of the rows in which the
\* margins do not increase (the order of equal margins is not specified).
SortOrders(margins) ==
    LET n == Len(margins)
    IN {p \in [1..n -> 1..n] :
          /\ \A i, j \in 1..n : i # j => p[i] # p[j]
          /\ \A i \in 1..n : i < n => margins[p[i]] >= margins[p[i + 1]]}

Reorder(list, p) == [k \in 1..Len(list) |-> list[p[k]]]

RankSelected(r, max_rank) == Max(r.pair[1], r.pair[2]) <= max_rank

\* max dico words rank
RankFilter(list, max_rank) ==
    IF max_rank > 0
    THEN SelectSeq(list, LAMBDA r : RankSelected(r, max_rank))
    ELSE list

\* max dico size
MaxSizeCut(list, max_size) ==
    IF max_size > 0 THEN SubSeq(list, 1, Min(max_size, Len(list))) ELSE list

\* min dico size
MinSizeOverride(list, min_size) ==
    IF min_size > 0
    THEN [k \in 1..Len(list) |->
            IF k <= min_size THEN [list[k] EXCEPT !.diff = Sentinel] ELSE list[k]]
    ELSE list

\* confidence threshold
ThresholdFilter(list, thr) ==
    IF thr > 0 THEN SelectSeq(list, LAMBDA r : r.diff > thr) ELSE list

Pairs(list) == [k \in 1..Len(list) |-> list[k].pair]

\* lines 110-140 on the scored rows, sorted in the order p
SelectCandidatesAfterThreshold(targets, margins, p, max_rank, max_size, min_size, thr) ==
    Pairs(MinSizeOverride(
            ThresholdFilter(
              MaxSizeCut(RankFilter(Reorder(AllPairs(targets, margins), p), max_rank),
                         max_size),
              thr),
            min_size))

\* the size cap applied before the rank filter
SelectCandidatesSizeBeforeRank(targets, margins, p, max_rank, max_size, min_size, thr) ==
    Pairs(ThresholdFilter(
            MinSizeOverride(
              RankFilter(MaxSizeCut(Reorder(AllPairs(targets, margins), p), max_size),
                         max_rank),
              min_size),
            thr))

SelectCandidates(targets, margins, p, max_rank, max_size, min_size, thr) ==
    Pairs(ThresholdFilter(
            MinSizeOverride(
              MaxSizeCut(RankFilter(Reorder(AllPairs(targets, margins), p), max_rank),
                         max_size),
              min_size),
            thr))

NoCall == [called |-> FALSE]

GetCandidates ==
    /\ ~cand.called
    /\ \E method \in Methods, n1 \in 1..MaxRows, n2 \in 2..MaxRows,
       max_rank \in 0..MaxRows, max_size \in 0..MaxSize, min_size \in 0..MaxSize,
       thr \in Thresholds :
      LET n_src == NSrc(method, n1, max_rank)
          rows == ScoredRows(method, n1, n_src)
          args == [called |-> TRUE, method |-> method, n1 |-> n1, n2 |-> n2,
                   dico_max_rank |-> max_rank, dico_max_size |-> max_size,
                   dico_min_size |-> min_size, dico_threshold |-> thr]
      IN IF ~SanityCheck(rows, n_src)
         THEN cand' = args @@
                      [targets |-> <<>>, margins |-> <<>>, raised |-> TRUE,
                       all_pairs |-> <<>>]
         ELSE \E targets \in [1..rows -> 0..(n2 - 1)], margins \in [1..rows -> Margins] :
                \E p \in SortOrders(margins) :
                  cand' = args @@
                      [targets |-> targets, margins |-> margins, raised |-> FALSE,
                       all_pairs |-> SelectCandidates(targets, margins, p, max_rank,
                                                      max_size, min_size, thr)]

(***************************************************************************)
(* C1: with dico_max_size > 0, dico_min_size > 0 and a                     *)
(* threshold below the 1e9 sentinel, get_candidates returns at least       *)
(* min(dico_min_size, dico_max_size, number of pairs that survive the rank *)
(* filter) pairs, whatever the margins are.                                *)
(***************************************************************************)
C1_RankSurvivors ==
    Cardinality({i \in 1..Len(cand.targets) :
                   \/ cand.dico_max_rank = 0
                   \/ (i - 1 <= cand.dico_max_rank /\ cand.targets[i] <= cand.dico_max_rank)})

C1_Precondition ==
    /\ cand.called
    /\ ~cand.raised
    /\ cand.dico_max_size > 0
    /\ cand.dico_min_size > 0

C1_MinSizeRetained ==
    (C1_Precondition /\ cand.dico_threshold < Sentinel)
        => Len(cand.all_pairs) >=
             Min(Min(cand.dico_min_size, cand.dico_max_size), C1_RankSurvivors)

\* C1 as stated: at least min(dico_min_size, dico_max_size) pairs are returned
\* regardless of the threshold value and of the margins.
C1_AsStated ==
    C1_Precondition
        => Len(cand.all_pairs) >= Min(cand.dico_min_size, cand.dico_max_size)

\* Two pairs whose margin (0) is below the threshold (1) are kept by the override.
C1_Witness ==
    /\ C1_Precondition
    /\ cand.dico_min_size = 2
    /\ cand.dico_max_size = 2
    /\ cand.dico_threshold = 1
    /\ Len(cand.margins) = 3
    /\ \A i \in 1..3 : cand.margins[i] = 0
    /\ Len(cand.all_pairs) = 2

(***************************************************************************)
(* build_pairwise_dictionary (dico_builder.py 143-182)                     *)
(***************************************************************************)
Policies == {"S2T", "T2S", "S2T|T2S", "S2T&T2S"}

\* Python's None in the place of a dictionary array (ndim 0 marks it).
None == [rows |-> <<>>, ndim |-> 0]

WordIds == 0..(NumWords - 1)
PairSet == WordIds \X WordIds

SeqsUpTo(S, n) == UNION {[1..k -> S] : k \in 0..n}

Range(c) == {c[k] : k \in 1..Len(c)}

\* What get_candidates returns: rows (query, target), a query row at most once.
CandLists ==
    {c \in SeqsUpTo(PairSet, MaxCand) :
       \A i, j \in 1..Len(c) : i # j => c[i][1] # c[j][1]}

\* s2t = 'S2T' in params.dico_build
S2TIn(build) == build \in {"S2T", "S2T|T2S", "S2T&T2S"}

\* t2s = 'T2S' in params.dico_build
T2SIn(build) == build \in {"T2S", "S2T|T2S", "S2T&T2S"}

T2SNotSwapped(c) == c

\* torch.cat([t2s_candidates[:, 1:], t2s_candidates[:, :1]], 1)
SwapColumns(c) == [k \in 1..Len(c) |-> <<c[k][2], c[k][1]>>]

\* list([[a, b] for (a, b) in final_pairs]): the set in one of its iteration orders
ListsOf(S) == {l \in [1..Cardinality(S) -> S] : Range(l) = S}

\* A dictionary array: its rows, and its number of dimensions (np.array of an
\* empty list is 1-dimensional, of an empty (0, 2) tensor 2-dimensional).
Array(rows, ndim) == [rows |-> rows, ndim |-> ndim]

\* final_pairs = s2t_candidates | t2s_candidates, or s2t_candidates & t2s_candidates
FinalPairs(build, s2t, t2s) ==
    IF build = "S2T|T2S"
    THEN Range(s2t) \cup Range(t2s)
    ELSE Range(s2t) \cap Range(t2s)

EmptyIntersectionAsArray(build, final_pairs) == FALSE

\* if len(final_pairs) == 0: logger.warning("Empty intersection ..."); return None
EmptyIntersection(build, final_pairs) ==
    build = "S2T&T2S" /\ final_pairs = {}

\* Every value the call can return for the given policy and candidate lists
\* (t2s_candidates as produced with the target as query, before the swap).
BuildPairwiseResults(build, s2t_candidates, t2s_candidates) ==
    LET t2s == IF T2SIn(build) THEN SwapColumns(t2s_candidates) ELSE t2s_candidates
    IN  IF build = "S2T" THEN {Array(s2t_candidates, 2)}
        ELSE IF build = "T2S" THEN {Array(t2s, 2)}
        ELSE LET final_pairs == FinalPairs(build, s2t_candidates, t2s)
             IN  IF EmptyIntersection(build, final_pairs)
                 THEN {None}
                 ELSE {Array(l, IF final_pairs = {} THEN 1 ELSE 2) :
                         l \in ListsOf(final_pairs)}

BuildPairwiseDictionary ==
    /\ ~pw.called
    /\ \E build \in Policies, s2t_given \in BOOLEAN, t2s_given \in BOOLEAN :
         \E s2t \in (IF S2TIn(build) \/ s2t_given THEN CandLists ELSE {<<>>}),
            t2s \in (IF T2SIn(build) \/ t2s_given THEN CandLists ELSE {<<>>}) :
           \E res \in BuildPairwiseResults(build, s2t, t2s) :
             pw' = [called |-> TRUE, dico_build |-> build,
                    s2t_given |-> s2t_given, t2s_given |-> t2s_given,
                    s2t_candidates |-> s2t, t2s_candidates |-> t2s,
                    dico |-> res]
    /\ UNCHANGED <<cand, bd, trainerVars>>

(***************************************************************************)
(* C2: under 'S2T&T2S', candidate sets that share no pair give the         *)
(* empty-dictionary signal None (no exception); candidate sets that share  *)
(* at least one pair give a non-empty dictionary.                          *)
(***************************************************************************)
C2_Shared ==
    {q \in PairSet :
       /\ \E i \in 1..Len(pw.s2t_candidates) : pw.s2t_candidates[i] = q
       /\ \E j \in 1..Len(pw.t2s_candidates) :
            pw.t2s_candidates[j] = <<q[2], q[1]>>}

C2_EmptySignal ==
    (pw.called /\ pw.dico_build = "S2T&T2S")
        => /\ (C2_Shared = {}) => pw.dico = None
           /\ (C2_Shared # {}) => (pw.dico # None /\ Len(pw.dico.rows) > 0)

\* Non-empty candidate lists with nothing in common: None is returned.
C2_Witness ==
    /\ pw.called
    /\ pw.dico_build = "S2T&T2S"
    /\ pw.s2t_candidates = <<(<<0, 0>>)>>
    /\ pw.t2s_candidates = <<(<<1, 0>>)>>
    /\ pw.dico = None

(***************************************************************************)
(* C4: under 'S2T&T2S' the dictionary is exactly the set of pairs (s, t)   *)
(* with (s, t) an S2T candidate and (t, s) a T2S candidate (target as      *)
(* query), given or computed; S2T {(0,1)} and T2S {(1,0)} give {(0,1)}.    *)
(* Under 'T2S' the dictionary is the T2S candidates, columns swapped.      *)
(***************************************************************************)
C4_Intersection ==
    (pw.called /\ pw.dico_build = "S2T&T2S" /\ pw.dico # None)
        => /\ Range(pw.dico.rows) = C2_Shared
           /\ Len(pw.dico.rows) = Cardinality(C2_Shared)

C4_T2SSwapped ==
    (pw.called /\ pw.dico_build = "T2S")
        => /\ pw.dico # None
           /\ Len(pw.dico.rows) = Len(pw.t2s_candidates)
           /\ \A k \in 1..Len(pw.t2s_candidates) :
                /\ pw.dico.rows[k][1] = pw.t2s_candidates[k][2]
                /\ pw.dico.rows[k][2] = pw.t2s_candidates[k][1]

C4_Example ==
    (/\ pw.called
     /\ pw.dico_build = "S2T&T2S"
     /\ pw.s2t_candidates = <<(<<0, 1>>)>>
     /\ pw.t2s_candidates = <<(<<1, 0>>)>>)
        => (pw.dico # None /\ pw.dico.rows = <<(<<0, 1>>)>>)

C4_ReversalNormalised == C4_Intersection /\ C4_T2SSwapped /\ C4_Example

\* S2T {(0,1)} and T2S {(1,0)}, both precomputed.
C4_Witness ==
    /\ pw.called
    /\ pw.dico_build = "S2T&T2S"
    /\ pw.s2t_given /\ pw.t2s_given
    /\ pw.s2t_candidates = <<(<<0, 1>>)>>
    /\ pw.t2s_candidates = <<(<<1, 0>>)>>
    /\ pw.dico # None
    /\ pw.dico.rows = <<(<<0, 1>>)>>

(***************************************************************************)
(* cross_match_dictionary (dico_builder.py 184-213)                        *)
(*                                                                         *)
(* Target languages are named by their position in params.tgt_lang         *)
(* (1..ntgt); dico is a function from those positions to dictionary        *)
(* arrays.  dico_inbn is None, or a dict that holds at most the key        *)
(* params.tgt_lang[1].                                                     *)
(***************************************************************************)
NoBridge == [isNone |-> TRUE, has |-> FALSE, val |-> None]            \* dico_inbn = None
EmptyBridge == [isNone |-> FALSE, has |-> FALSE, val |-> None]        \* dico_inbn = {}
Bridge(d) == [isNone |-> FALSE, has |-> TRUE, val |-> d]              \* {tgt_lang[1]: d}

Ok(rows) == [err |-> "", rows |-> rows]
Raise(e) == [err |-> e, rows |-> <<>>]

\* What evaluating d[:, c] raises: d is None, or d is a 1-dimensional array.
ColumnError(d) ==
    IF d.ndim = 0 THEN "TypeError" ELSE IF d.ndim = 1 THEN "IndexError" ELSE ""

\* x in d[:, c - 1]
InCol(x, d, c) == \E k \in 1..Len(d.rows) : d.rows[k][c] = x

\* the last matching row in the place of the first
FirstRowLast(d, c, x) ==
    d.rows[CHOOSE k \in 1..Len(d.rows) :
             /\ d.rows[k][c] = x
             /\ \A j \in 1..Len(d.rows) : j > k => d.rows[j][c] # x]

\* d[np.where(d[:, c - 1] == x)][0]
FirstRow(d, c, x) ==
    d.rows[CHOOSE k \in 1..Len(d.rows) :
             /\ d.rows[k][c] = x
             /\ \A j \in 1..k : j < k => d.rows[j][c] # x]

\* The first error of [src_word in dico[lang][:,0] for lang in lang_list]
FirstColumnError(lang_list, dico) ==
    LET bad == {i \in 1..Len(lang_list) : ColumnError(dico[lang_list[i]]) # ""}
    IN  IF bad = {} THEN ""
        ELSE ColumnError(dico[lang_list[CHOOSE i \in bad : \A j \in bad : i <= j]])

\* What evaluating dico_inbn[params.tgt_lang[1]][:, c] raises
BridgeError(dico_inbn, ntgt) ==
    IF ntgt < 2 THEN "IndexError"
    ELSE IF ~dico_inbn.has THEN "KeyError"
    ELSE ColumnError(dico_inbn.val)

DirectRow(src_word, lang_list, dico) ==
    <<src_word>> \o [i \in 1..Len(lang_list) |-> FirstRow(dico[lang_list[i]], 1, src_word)[2]]

BridgeRowShort(row, dico_inbn) ==
    <<row[1], FirstRow(dico_inbn.val, 1, row[2])[2]>>

\* new_row = [src_word, row[1]] + [bridge[np.where(bridge[:,0] == row[1])][0][1]]
BridgeRow(row, dico_inbn) ==
    <<row[1], row[2], FirstRow(dico_inbn.val, 1, row[2])[2]>>

\* the reverse row laid out as the first pass lays out a bridge row
ReverseBridgeRowForward(row, dico_inbn) ==
    <<row[1], row[2], FirstRow(dico_inbn.val, 2, row[2])[1]>>

\* new_row = [src_word] + [bridge[np.where(bridge[:,1] == row[1])][0][0]] + [row[1]]
ReverseBridgeRow(row, dico_inbn) ==
    <<row[1], FirstRow(dico_inbn.val, 2, row[2])[1], row[2]>>

\* lines 188-197 for one row of dico[lang_list[0]]: an error, or the rows appended
FirstPassRow(row, lang_list, dico, dico_inbn, ntgt) ==
    LET e == FirstColumnError(lang_list, dico)
    IN  IF e # "" THEN Raise(e)
        ELSE IF \A i \in 1..Len(lang_list) : InCol(row[1], dico[lang_list[i]], 1)
        THEN Ok(<<DirectRow(row[1], lang_list, dico)>>)
        ELSE IF ~dico_inbn.isNone
        THEN IF BridgeError(dico_inbn, ntgt) # ""
             THEN Raise(BridgeError(dico_inbn, ntgt))
             ELSE IF InCol(row[2], dico_inbn.val, 1)
                  THEN Ok(<<BridgeRow(row, dico_inbn)>>)
                  ELSE Ok(<<>>)
        ELSE Ok(<<>>)

\* lines 200-206 for one row of dico[params.tgt_lang[-1]]
SecondPassRow(row, dico, dico_inbn, ntgt) ==
    IF 1 \notin DOMAIN dico THEN Raise("KeyError")
    ELSE IF ColumnError(dico[1]) # "" THEN Raise(ColumnError(dico[1]))
    ELSE IF InCol(row[1], dico[1], 1) THEN Ok(<<>>)
    ELSE IF BridgeError(dico_inbn, ntgt) # "" THEN Raise(BridgeError(dico_inbn, ntgt))
    ELSE IF InCol(row[2], dico_inbn.val, 2)
         THEN Ok(<<ReverseBridgeRow(row, dico_inbn)>>)
         ELSE Ok(<<>>)

\* for row in d: an error for None, else the rows in order
Iterate(d) == IF d.ndim = 0 THEN Raise("TypeError") ELSE Ok(d.rows)

\* final_dico after the loop of lines 187-197
FirstPass(lang_list, dico, dico_inbn, ntgt) ==
    LET it == Iterate(dico[lang_list[1]])
        acc[k \in 0..Len(it.rows)] ==
            IF k = 0 THEN Ok(<<>>)
            ELSE IF acc[k - 1].err # "" THEN acc[k - 1]
            ELSE LET r == FirstPassRow(it.rows[k], lang_list, dico, dico_inbn, ntgt)
                 IN  IF r.err # "" THEN r ELSE Ok(acc[k - 1].rows \o r.rows)
    IN  IF it.err # "" THEN it ELSE acc[Len(it.rows)]

\* final_dico after the loop of lines 198-206
SecondPass(final_dico, dico, dico_inbn, ntgt) ==
    LET it == Iterate(dico[ntgt])
        acc[k \in 0..Len(it.rows)] ==
            IF k = 0 THEN Ok(final_dico)
            ELSE IF acc[k - 1].err # "" THEN acc[k - 1]
            ELSE LET r == SecondPassRow(it.rows[k], dico, dico_inbn, ntgt)
                 IN  IF r.err # "" THEN r ELSE Ok(acc[k - 1].rows \o r.rows)
    IN  IF dico_inbn.isNone THEN Ok(final_dico)
        ELSE IF it.err # "" THEN it ELSE acc[Len(it.rows)]

\* np.array(final_dico) and torch.from_numpy: rows of unequal length do not
\* make a numeric array (ValueError, or TypeError on the object array).
ToTensor(final_dico) ==
    IF \A i, j \in 1..Len(final_dico) : Len(final_dico[i]) = Len(final_dico[j])
    THEN Ok(final_dico)
    ELSE Raise("ValueError")

cross_match_dictionary(lang_list, dico, dico_inbn, ntgt) ==
    LET p1 == FirstPass(lang_list, dico, dico_inbn, ntgt)
        p2 == SecondPass(p1.rows, dico, dico_inbn, ntgt)
    IN  IF p1.err # "" THEN p1
        ELSE IF p2.err # "" THEN p2
        ELSE ToTensor(p2.rows)

(***************************************************************************)
(* build_dictionary (dico_builder.py 215-226), called by                   *)
(* Trainer.build_dictionary (trainer.py 168-176), and                      *)
(* Trainer.load_training_dico (trainer.py 135-166).  Each statement of the *)
(* two callers is a step; cross_match_dictionary is the last one.          *)
(***************************************************************************)
BdIdle ==
    [pc |-> "idle", caller |-> "", support |-> FALSE, ntgt |-> 0, dico_build |-> "",
     dico |-> <<>>, dico_inbn |-> NoBridge, out |-> Ok(<<>>)]

\* The policies build_dictionary is run under (the union policy is left to
\* SpecPairwise: it returns arrays, as 'S2T' and 'T2S' do).
BuildPolicies == {"S2T", "T2S", "S2T&T2S"}

\* lang_list = [params.tgt_lang[-1]] if not support else params.tgt_lang
LangList(support, ntgt) ==
    IF support THEN [i \in 1..ntgt |-> i] ELSE <<ntgt>>

\* The languages whose dictionary the caller fills, in order.
FillList(b) ==
    IF b.caller = "build_dictionary"
    THEN LangList(b.support, b.ntgt)
    ELSE [i \in 1..b.ntgt |-> i]

\* The lang_list handed to cross_match_dictionary.
MatchList(b) == FillList(b)

\* load_dictionary / load_identical_char_dico / load_identical_num_dico:
\* the word pairs of a file, or of the identical strings, as index pairs.
LoadedDicts == {Array(c, 2) : c \in SeqsUpTo(PairSet, MaxCand)}

\* identical strings of two vocabularies: a word is paired at most once
IdenticalDicts ==
    {Array(c, 2) : c \in {c \in CandLists :
                            \A i, j \in 1..Len(c) : i # j => c[i][2] # c[j][2]}}

BuildDictionaryCall ==
    /\ bd.pc = "idle"
    /\ \E support \in BOOLEAN, ntgt \in 1..MaxTgt, build \in BuildPolicies :
         bd' = [BdIdle EXCEPT !.pc = "pairwise", !.caller = "build_dictionary",
                              !.support = support, !.ntgt = ntgt,
                              !.dico_build = build]
    /\ UNCHANGED <<cand, pw, trainerVars>>

LoadTrainingDicoCall ==
    /\ bd.pc = "idle"
    /\ \E support \in BOOLEAN, ntgt \in 1..MaxTgt :
         bd' = [BdIdle EXCEPT !.pc = "pairwise", !.caller = "load_training_dico",
                              !.support = support, !.ntgt = ntgt]
    /\ UNCHANGED <<cand, pw, trainerVars>>

NextLang(b) == FillList(b)[Cardinality(DOMAIN b.dico) + 1]

\* dico[lang] = build_pairwise_dictionary(src_emb, tgt_emb[lang], params, ...)
BuildPairwiseFor ==
    /\ bd.pc = "pairwise"
    /\ bd.caller = "build_dictionary"
    /\ Cardinality(DOMAIN bd.dico) < Len(FillList(bd))
    /\ \E s2t \in CandLists, t2s \in CandLists :
         \E res \in BuildPairwiseResults(bd.dico_build, s2t, t2s) :
           bd' = [bd EXCEPT !.dico = (NextLang(bd) :> res) @@ bd.dico]
    /\ UNCHANGED <<cand, pw, trainerVars>>

\* dico[lang] = load_identical_char_dico(...) / load_dictionary(...)
LoadFor ==
    /\ bd.pc = "pairwise"
    /\ bd.caller = "load_training_dico"
    /\ Cardinality(DOMAIN bd.dico) < Len(FillList(bd))
    /\ \E d \in LoadedDicts :
         bd' = [bd EXCEPT !.dico = (NextLang(bd) :> d) @@ bd.dico]
    /\ UNCHANGED <<cand, pw, trainerVars>>

\* if support and len(lang_list) > 1: dico_inbn[tgt_lang[1]] = build_pairwise_dictionary(
\*     tgt_emb[tgt_lang[0]], tgt_emb[tgt_lang[1]], ...)  else: dico_inbn = None
BuildBetween ==
    /\ bd.pc = "pairwise"
    /\ bd.caller = "build_dictionary"
    /\ Cardinality(DOMAIN bd.dico) = Len(FillList(bd))
    /\ IF bd.support /\ Len(FillList(bd)) > 1
       THEN \E s2t \in CandLists, t2s \in CandLists :
              \E res \in BuildPairwiseResults(bd.dico_build, s2t, t2s) :
                bd' = [bd EXCEPT !.pc = "match", !.dico_inbn = Bridge(res)]
       ELSE bd' = [bd EXCEPT !.pc = "match", !.dico_inbn = NoBridge]
    /\ UNCHANGED <<cand, pw, trainerVars>>

\* dico_inbn = {}; if support and len(tgt_lang) > 1: dico_inbn[tgt_lang[1]] = load_identical_char_dico(...)
LoadBetween ==
    /\ bd.pc = "pairwise"
    /\ bd.caller = "load_training_dico"
    /\ Cardinality(DOMAIN bd.dico) = Len(FillList(bd))
    /\ IF bd.support /\ bd.ntgt > 1
       THEN \E d \in IdenticalDicts :
              bd' = [bd EXCEPT !.pc = "match", !.dico_inbn = Bridge(d)]
       ELSE bd' = [bd EXCEPT !.pc = "match", !.dico_inbn = EmptyBridge]
    /\ UNCHANGED <<cand, pw, trainerVars>>

\* return cross_match_dictionary(lang_list, dico, dico_inbn, params)
CrossMatch ==
    /\ bd.pc = "match"
    /\ bd' = [bd EXCEPT !.pc = "done",
                        !.out = cross_match_dictionary(MatchList(bd), bd.dico,
                                                       bd.dico_inbn, bd.ntgt)]
    /\ UNCHANGED <<cand, pw, trainerVars>>

(***************************************************************************)
(* Matrices: Dim x Dim integer matrices, as tuples of rows.                *)
(***************************************************************************)
Idx == 1..Dim

RECURSIVE SumOver(_, _)
SumOver(f, n) == IF n = 0 THEN 0 ELSE SumOver(f, n - 1) + f[n]

Identity == [j \in Idx |-> [k \in Idx |-> IF j = k THEN 1 ELSE 0]]
MatScale(c, A) == [j \in Idx |-> [k \in Idx |-> c * A[j][k]]]
MatSub(A, B) == [j \in Idx |-> [k \in Idx |-> A[j][k] - B[j][k]]]
MatT(A) == [j \in Idx |-> [k \in Idx |-> A[k][j]]]
MatMul(A, B) ==
    [j \in Idx |-> [k \in Idx |-> SumOver([i \in Idx |-> A[j][i] * B[i][k]], Dim)]]

(***************************************************************************)
(* The Trainer (trainer.py): construction, the adversarial steps, the      *)
(* learning-rate schedule and the checkpoint.                              *)
(*                                                                         *)
(* Languages are numbered: 0 is params.src_lang, 1..ntgt are               *)
(* params.tgt_lang in order.  Validation metrics and the constants they    *)
(* are compared with are in units of 10^3, so that -1e12 is an integer of  *)
(* the model checker; only their order is used.                            *)
(***************************************************************************)
AllLangs(ntgt) == 0..ntgt

\* self.best_valid_metric = -1e12
BestValidInit == -1000000000

\* to_log[metric] >= -1e7
MetricFloor == -10000

\* mean_cosine = -1e9 when the evaluation dictionary is None
NoDicoMetric == -1000000

Metrics == {NoDicoMetric, 0, 1, 2}

\* A rational factor num/den (lr_decay, lr_shrink); the learning rates of the
\* model are powers of two, on which the factors 1 and 1/2 are exact.
Ratio(num, den) == [num |-> num, den |-> den]
Times(x, r) == (x * r.num) \div r.den
LessThanOne(r) == r.num < r.den
Factors == {Ratio(1, 1), Ratio(1, 2)}

LrInit == 2 ^ 10
MinLr == 2 ^ 8

\* The updates lr * grad an optimizer step subtracts from a matrix.
MapUpdates == {Identity, MatScale(-1, Identity)}
DisUpdates == {-1, 1}

NoTrainerCall == [op |-> "", metric |-> 0, nan |-> FALSE, steps |-> 0, calls |-> 0]
NoHist == [nonimp |-> FALSE, prev_nonimp |-> FALSE, earlier_nonimp |-> FALSE,
           shrunk |-> FALSE, seen |-> {}]

\* W.copy_((1 + beta) * W - beta * W.mm(W.transpose(0, 1).mm(W)))
Orthogonalize(W, beta) ==
    IF beta > 0
    THEN MatSub(MatScale(1 + beta, W), MatScale(beta, MatMul(W, MatMul(MatT(W), W))))
    ELSE W

\* dis_step when the NaN check comes after the optimizer step
DisStepLateCheck ==
    /\ pc = "running"
    /\ call.steps < MaxSteps
    /\ \E nan \in BOOLEAN, u \in DisUpdates :
         /\ call' = [call EXCEPT !.op = "dis_step", !.nan = nan, !.steps = @ + 1]
         /\ discriminator' = discriminator - u
         /\ pc' = IF nan THEN "exited" ELSE pc
    /\ UNCHANGED <<dicoVars, params, mapping, lr, best_valid_metric, decrease_lr,
                   saved, hist, procVars>>

\* Trainer.dis_step: the loss (NaN or not) and the optimizer's update are inputs;
\* dis_clip_weights = 0, so clip_parameters leaves the parameters alone.
DisStep ==
    /\ pc = "running"
    /\ call.steps < MaxSteps
    /\ \E nan \in BOOLEAN, u \in DisUpdates :
         /\ call' = [call EXCEPT !.op = "dis_step", !.nan = nan, !.steps = @ + 1]
         /\ IF nan
            THEN /\ pc' = "exited"
                 /\ UNCHANGED discriminator
            ELSE /\ discriminator' = discriminator - u
                 /\ UNCHANGED pc
    /\ UNCHANGED <<dicoVars, params, mapping, lr, best_valid_metric, decrease_lr,
                   saved, hist, procVars>>

InRange(W) == \A j, k \in Idx : W[j][k] <= MaxEntry /\ -W[j][k] <= MaxEntry

\* Trainer.mapping_step
MappingStep ==
    /\ pc = "running"
    /\ call.steps < MaxSteps
    /\ InRange(mapping[0])
    /\ IF params.dis_lambda = 0
       THEN /\ call' = [call EXCEPT !.op = "mapping_step", !.nan = FALSE, !.steps = @ + 1]
            /\ UNCHANGED <<pc, mapping>>
       ELSE \E nan \in BOOLEAN, u \in MapUpdates :
              /\ call' = [call EXCEPT !.op = "mapping_step", !.nan = nan, !.steps = @ + 1]
              /\ IF nan
                 THEN /\ pc' = "exited"
                      /\ UNCHANGED mapping
                 ELSE /\ mapping' = [mapping EXCEPT
                                       ![0] = Orthogonalize(MatSub(mapping[0], u),
                                                            params.map_beta)]
                      /\ UNCHANGED pc
    /\ UNCHANGED <<dicoVars, params, discriminator, lr, best_valid_metric, decrease_lr,
                   saved, hist, procVars>>

\* the decay without the floor min_lr
DecayedLrUnclamped(old_lr, p) == Times(old_lr, p.lr_decay)

\* new_lr = max(self.params.min_lr, old_lr * self.params.lr_decay), kept if smaller
DecayedLr(old_lr, p) ==
    LET new_lr == Max(p.min_lr, Times(old_lr, p.lr_decay))
    IN  IF new_lr < old_lr THEN new_lr ELSE old_lr

\* to_log[metric] < self.best_valid_metric, inside lr_shrink < 1 and metric >= -1e7
MetricDecreased(metric, best, p) ==
    /\ LessThanOne(p.lr_shrink)
    /\ metric >= MetricFloor
    /\ metric < best

update_lr_shrink_at_once(old_lr, flag, best, metric, p) ==
    IF ~p.sgd
    THEN [lr |-> old_lr, decrease_lr |-> flag]
    ELSE [lr |-> IF MetricDecreased(metric, best, p)
                 THEN Times(DecayedLr(old_lr, p), p.lr_shrink)
                 ELSE DecayedLr(old_lr, p),
          decrease_lr |-> flag \/ MetricDecreased(metric, best, p)]

\* Trainer.update_lr: the learning rate and the decrease_lr flag it leaves
update_lr(old_lr, flag, best, metric, p) ==
    IF ~p.sgd
    THEN [lr |-> old_lr, decrease_lr |-> flag]
    ELSE [lr |-> IF MetricDecreased(metric, best, p) /\ flag
                 THEN Times(DecayedLr(old_lr, p), p.lr_shrink)
                 ELSE DecayedLr(old_lr, p),
          decrease_lr |-> flag \/ MetricDecreased(metric, best, p)]

UpdateLr ==
    /\ pc = "running"
    /\ call.calls < MaxCalls
    /\ \E metric \in Metrics :
         LET r == update_lr(lr, decrease_lr, best_valid_metric, metric, params)
         IN  /\ lr' = r.lr
             /\ decrease_lr' = r.decrease_lr
             /\ call' = [call EXCEPT !.op = "update_lr", !.metric = metric,
                                     !.nan = FALSE, !.calls = @ + 1]
             /\ hist' = [hist EXCEPT
                           !.nonimp = metric < best_valid_metric,
                           !.prev_nonimp = hist.nonimp,
                           !.earlier_nonimp = hist.earlier_nonimp \/ hist.nonimp,
                           !.shrunk = r.lr # (IF params.sgd THEN DecayedLr(lr, params)
                                                           ELSE lr)]
    /\ UNCHANGED <<dicoVars, params, pc, discriminator, mapping, best_valid_metric, saved,
                   procVars>>

IsBestOrEqual(metric, best) == metric >= best

\* if to_log[metric] > self.best_valid_metric
IsBest(metric, best) == metric > best

\* Trainer.save_best: torch.save(W[lang], path[lang]) for every language
SaveBest ==
    /\ pc = "running"
    /\ call.calls < MaxCalls
    /\ \E metric \in Metrics :
         /\ IF IsBest(metric, best_valid_metric)
            THEN /\ best_valid_metric' = metric
                 /\ saved' = [lang \in AllLangs(params.ntgt) |-> mapping[lang]]
            ELSE UNCHANGED <<best_valid_metric, saved>>
         /\ call' = [call EXCEPT !.op = "save_best", !.metric = metric,
                                 !.nan = FALSE, !.calls = @ + 1]
         /\ hist' = [hist EXCEPT !.seen = @ \cup {metric}]
    /\ UNCHANGED <<dicoVars, params, pc, discriminator, mapping, lr, decrease_lr,
                   procVars>>

(***************************************************************************)
(* C3: when build_pairwise_dictionary returns None for a source-target     *)
(* pair or for the bridge pair inside build_dictionary, build_dictionary   *)
(* and the cross-matching that follows finish without raising an error.    *)
(***************************************************************************)
C3_SomeDictionaryAbsent ==
    \/ \E lang \in DOMAIN bd.dico : bd.dico[lang] = None
    \/ (bd.dico_inbn.has /\ bd.dico_inbn.val = None)

C3_EmptyDictionarySkipped ==
    (bd.pc = "done" /\ bd.caller = "build_dictionary" /\ C3_SomeDictionaryAbsent)
        => bd.out.err = ""

(***************************************************************************)
(* C5: with one or two target languages in lang_list, every                *)
(* row of the array cross_match_dictionary returns has 1 + (number of      *)
(* target languages in lang_list) entries, whether it comes from the       *)
(* direct match, the bridge lookup or the reverse bridge pass.             *)
(***************************************************************************)
C5_Returned == bd.pc = "done" /\ bd.out.err = ""

C5_RowWidth ==
    (C5_Returned /\ Len(MatchList(bd)) <= 2)
        => \A k \in 1..Len(bd.out.rows) : Len(bd.out.rows[k]) = 1 + Len(MatchList(bd))

\* C5 as stated: for every number of target languages.
C5_AsStated ==
    C5_Returned
        => \A k \in 1..Len(bd.out.rows) : Len(bd.out.rows[k]) = 1 + Len(MatchList(bd))

\* Two target languages: a bridge row and a reverse-bridge row, three entries each.
C5_Witness ==
    /\ C5_Returned
    /\ bd.ntgt = 2
    /\ ~bd.dico_inbn.isNone
    /\ bd.out.rows = <<(<<0, 0, 1>>), (<<1, 0, 1>>)>>

(***************************************************************************)
(* C6: a dis_step or mapping_step whose loss is NaN terminates the process *)
(* and changes neither the discriminator's parameters nor any mapping      *)
(* matrix (no optimizer step, no orthogonalize).                           *)
(***************************************************************************)
C6_NaNStep ==
    (/\ call'.steps = call.steps + 1
     /\ call'.op \in {"dis_step", "mapping_step"}
     /\ call'.nan)
        => /\ pc' = "exited"
           /\ discriminator' = discriminator
           /\ mapping' = mapping

C6_NaNTerminatesBeforeUpdate == [][C6_NaNStep]_vars

\* A NaN in mapping_step after both networks have been trained.
C6_Witness ==
    /\ pc = "exited"
    /\ call.op = "mapping_step"
    /\ call.nan
    /\ params.map_beta > 0
    /\ discriminator # 0
    /\ mapping[0] # Identity

(***************************************************************************)
(* C7: under SGD with lr_shrink < 1, update_lr multiplies the              *)
(* learning rate by lr_shrink in an epoch only if that epoch is            *)
(* non-improving and some earlier epoch was non-improving as well; the     *)
(* earlier one need not be the epoch immediately before.                   *)
(***************************************************************************)
C7_Precondition ==
    /\ call.op = "update_lr"
    /\ params.sgd
    /\ LessThanOne(params.lr_shrink)

C7_ShrinkAfterEarlierDecrease ==
    (C7_Precondition /\ hist.shrunk) => (hist.nonimp /\ hist.earlier_nonimp)

\* C7 as stated: only if this epoch and the one immediately before it were
\* both non-improving.
C7_AsStated ==
    (C7_Precondition /\ hist.shrunk) => (hist.nonimp /\ hist.prev_nonimp)

\* A shrink in the second of two non-improving epochs in a row.
C7_Witness ==
    /\ C7_Precondition
    /\ hist.shrunk
    /\ hist.nonimp
    /\ hist.prev_nonimp
    /\ lr < DecayedLr(LrInit, params)

(***************************************************************************)
(* C8: save_best writes every language's mapping matrix and sets           *)
(* best_valid_metric to the new value exactly when the metric is strictly  *)
(* greater than best_valid_metric; otherwise nothing is written and        *)
(* best_valid_metric is unchanged.  best_valid_metric never decreases and  *)
(* is the maximum metric seen.                                             *)
(***************************************************************************)
C8_MaxSeen == CHOOSE m \in hist.seen : \A x \in hist.seen : x <= m

C8_Step ==
    /\ (call'.calls = call.calls + 1 /\ call'.op = "save_best")
         => IF call'.metric > best_valid_metric
            THEN /\ best_valid_metric' = call'.metric
                 /\ \A lang \in AllLangs(params.ntgt) : saved'[lang] = mapping[lang]
            ELSE /\ best_valid_metric' = best_valid_metric
                 /\ saved' = saved
    /\ best_valid_metric' >= best_valid_metric
    /\ (hist'.seen # {}) => best_valid_metric' = C8_MaxSeen'

C8_SavedOnStrictImprovement == [][C8_Step]_vars

\* A second, better checkpoint written after the mapping was trained.
C8_Witness ==
    /\ call.op = "save_best"
    /\ Cardinality(hist.seen) >= 2
    /\ best_valid_metric = call.metric
    /\ mapping[0] # Identity
    /\ \A lang \in AllLangs(params.ntgt) : saved[lang] = mapping[lang]

(***************************************************************************)
(* The alignment solver (trainer.py 178-216).                              *)
(*                                                                         *)
(* An embedding row is a Dim-vector.  The model's embeddings are signed    *)
(* unit vectors, and a word lies on the same axis in every language, so    *)
(* that every cross-covariance matrix the solver decomposes is diagonal;   *)
(* on diagonal matrices the singular value decomposition is exact in       *)
(* integers.  Where a singular value is 0 the singular vectors are not     *)
(* determined: every choice of their signs is an outcome.                  *)
(***************************************************************************)
\* for _ in range(100)
NumIter == 100

UnitRow(axis, sign) == [k \in Idx |-> IF k = axis THEN sign ELSE 0]

Abs(x) == IF x < 0 THEN -x ELSE x

SignedDiagonals ==
    {[j \in Idx |-> [k \in Idx |-> IF j = k THEN d[j] ELSE 0]] : d \in [Idx -> {-1, 1}]}

\* rows[ids]: the rows of an embedding matrix at the given word ids
Gather(rows, ids) == [i \in 1..Len(ids) |-> rows[ids[i] + 1]]

\* self.dico[:, c]
DicoColumn(d, c) == [i \in 1..Len(d) |-> d[i][c + 1]]

\* P.transpose(0, 1).mm(Q) for two lists of rows P and Q of the same length
CrossCovariance(P, Q) ==
    [j \in Idx |-> [k \in Idx |->
        SumOver([i \in 1..Len(P) |-> P[i][j] * Q[i][k]], Len(P))]]

\* scipy.linalg.svd(M, full_matrices=True) of a diagonal M: every U, S, V_t
\* with U and V_t orthogonal, S the absolute values, and U S V_t = M (a matrix
\* that is not diagonal has no decomposition of this form)
SVD(M) ==
    {f \in [U : SignedDiagonals, V_t : SignedDiagonals,
            S : {[j \in Idx |-> [k \in Idx |-> IF j = k THEN Abs(M[j][j]) ELSE 0]]}] :
       MatMul(f.U, MatMul(f.S, f.V_t)) = M}

WithSingularValues(f) == MatMul(f.U, MatMul(f.S, f.V_t))

\* U.dot(V_t)
Rotation(f) == MatMul(f.U, f.V_t)

\* The matrices the two-space Procrustes solution of M can be
ProcrustesSolutions(M) == {Rotation(f) : f \in SVD(M)}

GpIdle ==
    [pc |-> "idle", op |-> "", support |-> FALSE, initial_run |-> FALSE,
     first_run |-> FALSE, iter |-> 0, ref |-> "", updates |-> <<>>, err |-> ""]

\* Trainer.simple_procrustes
SimpleProcrustes ==
    /\ gp.pc = "idle"
    /\ LET A == Gather(emb[0], DicoColumn(self_dico, 0))
           B == Gather(emb[params.ntgt], DicoColumn(self_dico, 1))
           M == CrossCovariance(B, A)
       IN  \E W \in ProcrustesSolutions(M) :
             mapping' = [mapping EXCEPT ![0] = W]
    /\ gp' = [gp EXCEPT !.pc = "done", !.op = "simple_procrustes"]
    /\ UNCHANGED <<dicoVars, params, pc, discriminator, lr, best_valid_metric,
                   decrease_lr, saved, call, hist, emb, self_dico>>

\* X.keys(): the languages of lang_list, then params.src_lang
Spaces(support, ntgt) == LangList(support, ntgt) \o <<0>>

\* X[lang]: the matched points of a space
Points(support, ntgt, lang) ==
    IF lang = 0
    THEN Gather(emb[0], DicoColumn(self_dico, 0))
    ELSE LET i == CHOOSE i \in 1..Len(LangList(support, ntgt)) :
                    LangList(support, ntgt)[i] = lang
         IN  Gather(emb[lang], DicoColumn(self_dico, i))

\* X[lang].mm(T[lang]): each point times the mapping matrix
Mapped(P, T) ==
    [i \in 1..Len(P) |-> [k \in Idx |-> SumOver([j \in Idx |-> P[i][j] * T[j][k]], Dim)]]

\* get_group_average: the elementwise mean over the spaces, as the sum (num)
\* over the number of spaces (den)
GroupAverage(support, ntgt, T) ==
    LET sp == Spaces(support, ntgt)
        n == Len(self_dico)
    IN  [num |-> [i \in 1..n |-> [k \in Idx |->
                    SumOver([s \in 1..Len(sp) |->
                               Mapped(Points(support, ntgt, sp[s]), T[sp[s]])[i][k]],
                            Len(sp))]],
         den |-> Len(sp)]

\* G = X[self.params.tgt_lang[0]]
InitialReference(support, ntgt) == [num |-> Points(support, ntgt, 1), den |-> 1]

\* Trainer.generalized_procrustes up to the loop: lang_list, X and T are set
GeneralizedProcrustesCall ==
    /\ gp.pc = "idle"
    /\ \E support \in BOOLEAN, initial_run \in BOOLEAN :
         gp' = [GpIdle EXCEPT !.pc = "loop", !.op = "generalized_procrustes",
                              !.support = support, !.initial_run = initial_run,
                              !.first_run = initial_run,
                              !.updates = [lang \in AllLangs(params.ntgt) |-> 0]]
    /\ UNCHANGED <<dicoVars, params, pc, discriminator, mapping, lr, best_valid_metric,
                   decrease_lr, saved, call, hist, emb, self_dico>>

InSpaces(support, ntgt, lang) ==
    \E s \in 1..Len(Spaces(support, ntgt)) : Spaces(support, ntgt)[s] = lang

\* for lang in X.keys(): the spaces whose T[lang] one iteration overwrites
UpdatedSpaces(support, ntgt) == Spaces(support, ntgt)

\* initial_run left as the call set it
InitialRunKept(initial_run) == initial_run

\* initial_run=False
AfterIteration(initial_run) == FALSE

\* The loop body, lines 213-216, on the first k of the spaces sp: every
\* choice of a solution T[lang] of G^t X[lang] for each of them.  The SVD of
\* G^t X[lang] is that of its numerator: a positive factor 1/den changes no
\* singular vector.
RECURSIVE Alignments(_, _, _, _, _)
Alignments(G, sp, support, ntgt, k) ==
    IF k = 0 THEN {<<>>}
    ELSE LET sols == ProcrustesSolutions(
                        CrossCovariance(G.num, Points(support, ntgt, sp[k])))
         IN  {Append(t, W) : t \in Alignments(G, sp, support, ntgt, k - 1), W \in sols}

\* One iteration of the loop (lines 207-216)
GeneralizedProcrustesIteration ==
    /\ gp.pc = "loop"
    /\ gp.iter < NumIter
    /\ IF gp.initial_run /\ ~InSpaces(gp.support, params.ntgt, 1)
       THEN /\ gp' = [gp EXCEPT !.pc = "raised", !.err = "KeyError"]
            /\ UNCHANGED mapping
       ELSE LET G == IF gp.initial_run
                     THEN InitialReference(gp.support, params.ntgt)
                     ELSE GroupAverage(gp.support, params.ntgt, mapping)
                upd == UpdatedSpaces(gp.support, params.ntgt)
            IN  /\ \E T \in Alignments(G, upd, gp.support, params.ntgt, Len(upd)) :
                     mapping' = [lang \in DOMAIN mapping |->
                                   IF \E s \in 1..Len(upd) : upd[s] = lang
                                   THEN T[CHOOSE s \in 1..Len(upd) : upd[s] = lang]
                                   ELSE mapping[lang]]
                /\ gp' = [gp EXCEPT
                            !.iter = @ + 1,
                            !.initial_run = AfterIteration(gp.initial_run),
                            !.ref = IF gp.initial_run THEN "initial" ELSE "average",
                            !.updates = [lang \in DOMAIN gp.updates |->
                                           IF \E s \in 1..Len(upd) : upd[s] = lang
                                           THEN gp.updates[lang] + 1
                                           ELSE gp.updates[lang]]]
    /\ UNCHANGED <<dicoVars, params, pc, discriminator, lr, best_valid_metric,
                   decrease_lr, saved, call, hist, emb, self_dico>>

\* the loop is over: generalized_procrustes returns
GeneralizedProcrustesReturn ==
    /\ gp.pc = "loop"
    /\ gp.iter = NumIter
    /\ gp' = [gp EXCEPT !.pc = "done"]
    /\ UNCHANGED <<dicoVars, params, pc, discriminator, mapping, lr, best_valid_metric,
                   decrease_lr, saved, call, hist, emb, self_dico>>

(***************************************************************************)
(* C9.  generalized_procrustes always runs exactly 100 iterations, and     *)
(* each iteration updates the mapping of every participating space once:   *)
(* whenever a call is over, 100 iterations have run and every space of     *)
(* X.keys() has been updated 100 times.  Violated by the call that raises  *)
(* KeyError in its first iteration (initial_run without support and with   *)
(* two target languages), which runs no iteration to its end.              *)
(***************************************************************************)
C9_CallOver == gp.op = "generalized_procrustes" /\ gp.pc \in {"done", "raised"}

C9_HundredIterations ==
    C9_CallOver
        => /\ gp.iter = NumIter
           /\ \A lang \in AllLangs(params.ntgt) :
                InSpaces(gp.support, params.ntgt, lang) => gp.updates[lang] = NumIter

(***************************************************************************)
(* C10.  simple_procrustes sets the source mapping to W = U V^t from the   *)
(* SVD of M = B^t A, and W is orthogonal.  With identical embeddings and   *)
(* the identity dictionary W is the identity matrix provided M is          *)
(* non-singular (the matched rows span the space); on a singular M the     *)
(* SVD does not determine U V^t.                                           *)
(***************************************************************************)
C10_Solved == gp.op = "simple_procrustes" /\ gp.pc = "done"

C10_Orthogonal == MatMul(MatT(mapping[0]), mapping[0]) = Identity

C10_IdenticalEmbeddings == emb[0] = emb[params.ntgt]

C10_IdentityDictionary ==
    /\ \A i \in 1..Len(self_dico) : self_dico[i][1] = self_dico[i][2]
    /\ {self_dico[i][1] : i \in 1..Len(self_dico)} = WordIds

C10_M ==
    CrossCovariance(Gather(emb[params.ntgt], DicoColumn(self_dico, 1)),
                    Gather(emb[0], DicoColumn(self_dico, 0)))

C10_NonSingular == \A k \in Idx : C10_M[k][k] # 0

C11_FirstRows == bd.dico[MatchList(bd)[1]].rows

C11_InEvery(s) ==
    \A i \in 1..Len(MatchList(bd)) :
       \E k \in 1..Len(bd.dico[MatchList(bd)[i]].rows) :
          bd.dico[MatchList(bd)[i]].rows[k][1] = s

C11_AllArrays ==
    /\ \A lang \in DOMAIN bd.dico : bd.dico[lang].ndim = 2
    /\ bd.dico_inbn.has => bd.dico_inbn.val.ndim = 2

C11_SomeUnmatched ==
    \E k \in 1..Len(C11_FirstRows) : ~C11_InEvery(C11_FirstRows[k][1])

C11_NoBridgeCall ==
    bd.pc = "done" /\ ~bd.dico_inbn.has /\ C11_AllArrays /\ C11_SomeUnmatched

C11_UnmatchedRowDropped ==
    C11_NoBridgeCall
        => /\ bd.out.err = ""
           /\ Len(bd.out.rows) =
                Cardinality({k \in 1..Len(C11_FirstRows) : C11_InEvery(C11_FirstRows[k][1])})

(***************************************************************************)
(* C12.  For each row (s, t1) of the first target language's dictionary    *)
(* whose source s occurs in every target language's dictionary, exactly    *)
(* one output row is recorded, (s, f_1(s), ..., f_n(s)), where f_k(s) is   *)
(* the target of the first row of language k's dictionary with source s;   *)
(* two rows with the same source give two identical output rows.  The      *)
(* first pass records at most one row per row of the first dictionary, in  *)
(* order, so the row of the k-th dictionary row is at the position that    *)
(* counts the rows up to k that record one.                                *)
(***************************************************************************)
C12_Direct(k) == C11_InEvery(C11_FirstRows[k][1])

C12_Bridged(k) ==
    /\ ~C12_Direct(k)
    /\ bd.dico_inbn.has
    /\ \E j \in 1..Len(bd.dico_inbn.val.rows) :
         bd.dico_inbn.val.rows[j][1] = C11_FirstRows[k][2]

C12_Position(k) == Cardinality({j \in 1..k : C12_Direct(j) \/ C12_Bridged(j)})

C12_FirstMatch(lang, s) ==
    LET r == bd.dico[lang].rows
        m == CHOOSE m \in 1..Len(r) : r[m][1] = s /\ \A j \in 1..(m - 1) : r[j][1] # s
    IN  r[m][2]

C12_Expected(s) ==
    <<s>> \o [i \in 1..Len(MatchList(bd)) |-> C12_FirstMatch(MatchList(bd)[i], s)]

C12_DirectRows ==
    /\ (bd.pc = "done" /\ C11_AllArrays)
         => \A k \in 1..Len(C11_FirstRows) :
              C12_Direct(k)
                => FirstPassRow(C11_FirstRows[k], MatchList(bd), bd.dico, bd.dico_inbn,
                                bd.ntgt)
                     = Ok(<<C12_Expected(C11_FirstRows[k][1])>>)
    /\ (bd.pc = "done" /\ bd.out.err = "")
         => /\ C12_Position(Len(C11_FirstRows)) <= Len(bd.out.rows)
            /\ bd.dico_inbn.isNone => C12_Position(Len(C11_FirstRows)) = Len(bd.out.rows)
            /\ \A k \in 1..Len(C11_FirstRows) :
                 C12_Direct(k)
                   => bd.out.rows[C12_Position(k)] = C12_Expected(C11_FirstRows[k][1])

\* Two rows with the source 0: both give (0, 1), the target of the first one.
C12_Witness ==
    /\ bd.pc = "done"
    /\ bd.out.err = ""
    /\ bd.ntgt = 1
    /\ C11_FirstRows = <<(<<0, 1>>), (<<0, 0>>)>>
    /\ bd.out.rows = <<(<<0, 1>>), (<<0, 1>>)>>

(***************************************************************************)
(* C13.  With a bridge dictionary supplied, the rows cross_match_dictionary *)
(* returns after the first-pass rows are exactly, in order, one row        *)
(* (s, bridged source, t_last) for each row (s, t_last) of the last target *)
(* language's dictionary whose s is no source of the first target          *)
(* language's dictionary and whose t_last is a target of the bridge; the   *)
(* bridged source is the source of the first bridge row with that target.  *)
(***************************************************************************)
C13_BridgeCall == bd.pc = "done" /\ bd.out.err = "" /\ bd.dico_inbn.has

C13_InFirst(s) == \E k \in 1..Len(bd.dico[1].rows) : bd.dico[1].rows[k][1] = s

C13_InBridgeTargets(t) ==
    \E j \in 1..Len(bd.dico_inbn.val.rows) : bd.dico_inbn.val.rows[j][2] = t

C13_BridgedSource(t) ==
    LET r == bd.dico_inbn.val.rows
        m == CHOOSE m \in 1..Len(r) : r[m][2] = t /\ \A j \in 1..(m - 1) : r[j][2] # t
    IN  r[m][1]

C13_Recovered ==
    SelectSeq(bd.dico[bd.ntgt].rows,
              LAMBDA r : ~C13_InFirst(r[1]) /\ C13_InBridgeTargets(r[2]))

C13_FirstPassRows == C12_Position(Len(C11_FirstRows))

C13_SecondPassRows ==
    C13_BridgeCall
        => /\ Len(bd.out.rows) = C13_FirstPassRows + Len(C13_Recovered)
           /\ \A k \in 1..Len(C13_Recovered) :
                bd.out.rows[C13_FirstPassRows + k] =
                    <<C13_Recovered[k][1], C13_BridgedSource(C13_Recovered[k][2]),
                      C13_Recovered[k][2]>>

\* A direct row, then the row recovered for source 1 through the bridge row (0, 1).
C13_Witness ==
    /\ C13_BridgeCall
    /\ bd.ntgt = 2
    /\ C13_FirstPassRows = 1
    /\ bd.dico[2].rows = <<(<<0, 0>>), (<<1, 1>>)>>
    /\ bd.dico_inbn.val.rows = <<(<<0, 1>>)>>
    /\ bd.out.rows = <<(<<0, 0, 0>>), (<<1, 0, 1>>)>>

(***************************************************************************)
(* C14.  get_candidates applies, in this order, the rank filter, the       *)
(* max-size truncation, the min-size override and the threshold: for a     *)
(* threshold below the 1e9 sentinel the returned list is, in an order of   *)
(* non-increasing margin, the first dico_min_size pairs of the             *)
(* rank-filtered list truncated to dico_max_size, followed by the later    *)
(* pairs of that truncated list whose margin exceeds the threshold (all of *)
(* them when the threshold is 0); with dico_max_rank > 0 no returned index *)
(* exceeds dico_max_rank.                                                  *)
(***************************************************************************)
C14_Ranked(p) ==
    SelectSeq(Reorder(AllPairs(cand.targets, cand.margins), p),
              LAMBDA r : \/ cand.dico_max_rank = 0
                         \/ (r.pair[1] <= cand.dico_max_rank /\ r.pair[2] <= cand.dico_max_rank))

C14_Truncated(p) ==
    IF cand.dico_max_size > 0 /\ cand.dico_max_size < Len(C14_Ranked(p))
    THEN SubSeq(C14_Ranked(p), 1, cand.dico_max_size)
    ELSE C14_Ranked(p)

C14_Kept(p) ==
    IF cand.dico_min_size < Len(C14_Truncated(p))
    THEN cand.dico_min_size
    ELSE Len(C14_Truncated(p))

C14_Expected(p) ==
    LET head == SubSeq(C14_Truncated(p), 1, C14_Kept(p))
        rest == SubSeq(C14_Truncated(p), C14_Kept(p) + 1, Len(C14_Truncated(p)))
        tail == SelectSeq(rest, LAMBDA r : cand.dico_threshold = 0
                                            \/ r.diff > cand.dico_threshold)
        all == head \o tail
    IN  [k \in 1..Len(all) |-> all[k].pair]

C14_WithinRank ==
    cand.dico_max_rank > 0
        => \A k \in 1..Len(cand.all_pairs) :
             /\ cand.all_pairs[k][1] <= cand.dico_max_rank
             /\ cand.all_pairs[k][2] <= cand.dico_max_rank

C14_Returned == cand.called /\ ~cand.raised

C14_FilterOrder ==
    (C14_Returned /\ cand.dico_threshold < Sentinel)
        => /\ \E p \in SortOrders(cand.margins) : cand.all_pairs = C14_Expected(p)
           /\ C14_WithinRank

\* C14 as stated: for every threshold
C14_AsStated ==
    C14_Returned
        => /\ \E p \in SortOrders(cand.margins) : cand.all_pairs = C14_Expected(p)
           /\ C14_WithinRank

\* The third row is beyond the rank, the first of the two others is kept by
\* the override and the second dropped by the threshold.
C14_Witness ==
    /\ C14_Returned
    /\ cand.method = "invsm_beta_"
    /\ cand.dico_max_rank = 1
    /\ cand.dico_max_size = 2
    /\ cand.dico_min_size = 1
    /\ cand.dico_threshold = 1
    /\ cand.targets = <<0, 1, 1>>
    /\ cand.margins = <<1, 0, 2>>
    /\ cand.all_pairs = <<(<<0, 0>>)>>

(***************************************************************************)
(* C15.  In generalized_procrustes the initial reference (one target       *)
(* space's matched points) is used only in the first iteration of a call   *)
(* made with initial_run true.  Every other iteration aligns each space to *)
(* the elementwise mean, over all the spaces, of the matched points times  *)
(* the mapping matrices the previous iteration left: the new mapping of a  *)
(* space is an orthogonal matrix that agrees best with that reference.     *)
(***************************************************************************)
C15_UsesInitial == gp.iter = 0 /\ gp.first_run

C15_Reference ==
    IF C15_UsesInitial
    THEN InitialReference(gp.support, params.ntgt)
    ELSE GroupAverage(gp.support, params.ntgt, mapping)

\* W agrees best with the reference R on the points X: it maximises
\* trace(W^t R^t X) over the orthogonal matrices, which on a diagonal R^t X
\* is to have the sign of each entry of R^t X that is not 0
C15_AgreesBest(W, R, X) ==
    \A k \in Idx :
       LET m == SumOver([i \in 1..Len(X) |-> R[i][k] * X[i][k]], Len(X))
       IN  W[k][k] * m = Abs(m)

C15_Step ==
    (gp.pc = "loop" /\ gp'.iter = gp.iter + 1)
        => /\ gp'.ref = (IF C15_UsesInitial THEN "initial" ELSE "average")
           /\ \A lang \in AllLangs(params.ntgt) :
                InSpaces(gp.support, params.ntgt, lang)
                  => C15_AgreesBest(mapping'[lang], C15_Reference.num,
                                    Points(gp.support, params.ntgt, lang))

C15_MeanReferenceAfterFirst == [][C15_Step]_vars

\* An initial run that went on to the mean reference and moved the source mapping.
C15_Witness ==
    /\ gp.op = "generalized_procrustes"
    /\ gp.pc = "loop"
    /\ gp.first_run
    /\ gp.iter = 2
    /\ gp.ref = "average"
    /\ mapping[0] # Identity

(***************************************************************************)
(* C16.  On an initial run of generalized_procrustes, whatever support and *)
(* the number of target languages are, the first reference is the matched  *)
(* points of a target language that is one of the spaces aligned in the    *)
(* call, so that the initialisation succeeds.  Violated without support    *)
(* and with two target languages: the reference language is                *)
(* params.tgt_lang[0], the only target space is params.tgt_lang[-1].       *)
(***************************************************************************)
C16_InitialRun == gp.op = "generalized_procrustes" /\ gp.first_run

C16_InitialReferenceAligned ==
    C16_InitialRun
        => /\ InSpaces(gp.support, params.ntgt, 1)
           /\ gp.err = ""

(***************************************************************************)
(* C17.  In get_candidates the sanity assertion holds for every scoring    *)
(* mode and every dico_max_rank, also one larger than the number of rows   *)
(* of the query matrix: all_scores and all_pairs have n_src rows.          *)
(* Violated under 'nn' and CSLS with dico_max_rank above the number of     *)
(* rows: n_src is dico_max_rank, the loops score the rows there are.       *)
(***************************************************************************)
C17_SanityAssertionHolds == cand.called => ~cand.raised

(***************************************************************************)
(* C18.  update_lr leaves the learning rate and the decrease_lr flag       *)
(* unchanged when the optimizer is not SGD.  Under SGD a call that starts  *)
(* from a rate >= min_lr and does not shrink leaves a rate >= min_lr (the  *)
(* decay stops at min_lr); a call that shrinks leaves the decayed rate     *)
(* times lr_shrink, which can be below min_lr.                             *)
(***************************************************************************)
C18_UpdateLrStep == call'.op = "update_lr" /\ call'.calls = call.calls + 1

C18_Step ==
    C18_UpdateLrStep
        => /\ ~params.sgd => (lr' = lr /\ decrease_lr' = decrease_lr)
           /\ (params.sgd /\ lr >= params.min_lr)
                => IF hist'.shrunk
                   THEN /\ lr' >= Times(params.min_lr, params.lr_shrink)
                        /\ lr' = Times(Max(params.min_lr, Times(lr, params.lr_decay)),
                                       params.lr_shrink)
                   ELSE lr' >= params.min_lr

C18_DecayStopsAtMinLr == [][C18_Step]_vars

\* C18 as stated: no call takes the rate from min_lr or above to below min_lr
C18_AsStatedStep ==
    C18_UpdateLrStep
        => /\ ~params.sgd => (lr' = lr /\ decrease_lr' = decrease_lr)
           /\ lr >= params.min_lr => lr' >= params.min_lr

C18_AsStated == [][C18_AsStatedStep]_vars

\* Three decays by 1/2 from 4 min_lr: the third one stops at min_lr.
C18_Witness ==
    /\ call.op = "update_lr"
    /\ call.calls = 3
    /\ params.sgd
    /\ params.lr_decay = Ratio(1, 2)
    /\ ~decrease_lr
    /\ lr = params.min_lr

(***************************************************************************)
(* Specifications.  The state after construction: no dictionary call made, *)
(* the Trainer as __init__ leaves it (trainer.py 27-52) with identity      *)
(* mapping matrices.                                                       *)
(***************************************************************************)
DefaultParams ==
    [ntgt |-> 1, sgd |-> TRUE, lr_decay |-> Ratio(1, 2), lr_shrink |-> Ratio(1, 2),
     min_lr |-> MinLr, dis_lambda |-> 1, map_beta |-> 0]

\* the adversarial steps: every dis_lambda and map_beta tried
AdvParams ==
    [ntgt : {1}, sgd : {TRUE}, lr_decay : {Ratio(1, 2)}, lr_shrink : {Ratio(1, 2)},
     min_lr : {MinLr}, dis_lambda : {0, 1}, map_beta : {0, 1}]

\* the alignment solver: one or two target languages
ProcParams ==
    [ntgt : {1, 2}, sgd : {TRUE}, lr_decay : {Ratio(1, 2)}, lr_shrink : {Ratio(1, 2)},
     min_lr : {MinLr}, dis_lambda : {1}, map_beta : {0}]

\* the schedule: SGD or not, with and without decay and shrink
SchedParams ==
    [ntgt : {2}, sgd : BOOLEAN, lr_decay : Factors, lr_shrink : Factors,
     min_lr : {MinLr}, dis_lambda : {1}, map_beta : {0}]

Init ==
    /\ cand = NoCall
    /\ pw = NoCall
    /\ bd = BdIdle
    /\ params = DefaultParams
    /\ pc = "running"
    /\ discriminator = 0
    /\ mapping = [lang \in AllLangs(params.ntgt) |-> Identity]
    /\ lr = LrInit
    /\ best_valid_metric = BestValidInit
    /\ decrease_lr = FALSE
    /\ saved = [lang \in AllLangs(params.ntgt) |-> <<>>]
    /\ call = NoTrainerCall
    /\ hist = NoHist
    /\ emb = [lang \in AllLangs(params.ntgt) |-> [w \in 1..NumWords |-> UnitRow(1, 1)]]
    /\ self_dico = <<>>
    /\ gp = GpIdle

InitAdv ==
    /\ cand = NoCall
    /\ pw = NoCall
    /\ bd = BdIdle
    /\ params \in AdvParams
    /\ pc = "running"
    /\ discriminator = 0
    /\ mapping = [lang \in AllLangs(params.ntgt) |-> Identity]
    /\ lr = LrInit
    /\ best_valid_metric = BestValidInit
    /\ decrease_lr = FALSE
    /\ saved = [lang \in AllLangs(params.ntgt) |-> <<>>]
    /\ call = NoTrainerCall
    /\ hist = NoHist
    /\ emb = [lang \in AllLangs(params.ntgt) |-> [w \in 1..NumWords |-> UnitRow(1, 1)]]
    /\ self_dico = <<>>
    /\ gp = GpIdle

InitSched ==
    /\ cand = NoCall
    /\ pw = NoCall
    /\ bd = BdIdle
    /\ params \in SchedParams
    /\ pc = "running"
    /\ discriminator = 0
    /\ mapping = [lang \in AllLangs(params.ntgt) |-> Identity]
    /\ lr = LrInit
    /\ best_valid_metric = BestValidInit
    /\ decrease_lr = FALSE
    /\ saved = [lang \in AllLangs(params.ntgt) |-> <<>>]
    /\ call = NoTrainerCall
    /\ hist = NoHist
    /\ emb = [lang \in AllLangs(params.ntgt) |-> [w \in 1..NumWords |-> UnitRow(1, 1)]]
    /\ self_dico = <<>>
    /\ gp = GpIdle

InitProc ==
    /\ cand = NoCall
    /\ pw = NoCall
    /\ bd = BdIdle
    /\ params \in ProcParams
    /\ pc = "running"
    /\ discriminator = 0
    /\ mapping = [lang \in AllLangs(params.ntgt) |-> Identity]
    /\ lr = LrInit
    /\ best_valid_metric = BestValidInit
    /\ decrease_lr = FALSE
    /\ saved = [lang \in AllLangs(params.ntgt) |-> <<>>]
    /\ call = NoTrainerCall
    /\ hist = NoHist
    /\ \E axis \in {a \in [1..NumWords -> Idx] : a[1] = 1} :
         \E sign \in [AllLangs(params.ntgt) \ {0} -> {-1, 1}] :
           emb = [lang \in AllLangs(params.ntgt) |->
                    [w \in 1..NumWords |->
                       UnitRow(axis[w], IF lang = 0 THEN 1 ELSE sign[lang])]]
    /\ \E n \in 1..Min(MaxCand, NumWords) :
         self_dico = [i \in 1..n |-> [c \in 1..(1 + params.ntgt) |-> i - 1]]
    /\ gp = GpIdle

\* get_candidates on every scorer output within the bounds
SpecCand == Init /\ [][GetCandidates /\ UNCHANGED <<pw, bd, trainerVars>>]_vars

\* build_pairwise_dictionary on every policy and candidate lists
SpecPairwise == Init /\ [][BuildPairwiseDictionary]_vars

NextDico ==
    \/ BuildDictionaryCall
    \/ BuildPairwiseFor
    \/ BuildBetween
    \/ LoadTrainingDicoCall
    \/ LoadFor
    \/ LoadBetween
    \/ CrossMatch

\* build_dictionary and load_training_dico, statement by statement
SpecDico == Init /\ [][NextDico]_vars

NextAdv ==
    \/ DisStep
    \/ MappingStep

\* the adversarial steps of the training loop, in any order
SpecAdv == InitAdv /\ [][NextAdv]_vars

NextSched ==
    \/ MappingStep
    \/ UpdateLr
    \/ SaveBest

\* validation epochs: update_lr and save_best in any order, the mapping
\* trained in between
SpecSched == InitSched /\ [][NextSched]_vars

NextProc ==
    \/ SimpleProcrustes
    \/ GeneralizedProcrustesCall
    \/ GeneralizedProcrustesIteration
    \/ GeneralizedProcrustesReturn

\* one call of simple_procrustes or of generalized_procrustes on a dictionary
\* that matches each word with itself
SpecProc == InitProc /\ [][NextProc]_vars

====
